---- MODULE Spec2Model ----
(***************************************************************************)
(* A model of the terminal coding assistant: the sandboxed file tools, the *)
(* diff tool, the planner's parser, the conversation memory store with its *)
(* summarizer, and the controller's chat and agent turns driven by the     *)
(* interactive loop.                                                       *)
(*                                                                         *)
(* Text is modelled as TLA+ strings handled character by character.  A     *)
(* TLA+ string cannot hold the backquote character, so the model writes    *)
(* "~" for it: the Markdown fence marker is "~~~" here.                     *)
(***************************************************************************)
EXTENDS Integers, Sequences, FiniteSets, TLC

-----------------------------------------------------------------------------
(* Python's str operations, on strings of the model's alphabet.            *)

Char(s, i) == SubSeq(s, i, i)

IsSpace(c) == c \in {" ", "\n", "\t"}

IsDigit(c) == c \in {"0", "1", "2", "3", "4", "5", "6", "7", "8", "9"}

\* str.lstrip(chars) for the set of characters `cs`
RECURSIVE LStripSet(_, _)
LStripSet(s, cs) ==
    IF Len(s) > 0 /\ Head(s) \in cs THEN LStripSet(Tail(s), cs) ELSE s

\* str.rstrip(chars) for the set of characters `cs`
RECURSIVE RStripSet(_, _)
RStripSet(s, cs) ==
    IF Len(s) > 0 /\ Char(s, Len(s)) \in cs
    THEN RStripSet(SubSeq(s, 1, Len(s) - 1), cs)
    ELSE s

Whitespace == {" ", "\n", "\t"}

\* str.strip()
Strip(s) == RStripSet(LStripSet(s, Whitespace), Whitespace)

LowerChar(c) ==
    CASE c = "Y" -> "y" [] c = "E" -> "e" [] c = "S" -> "s"
      [] c = "N" -> "n" [] c = "O" -> "o" [] c = "C" -> "c"
      [] c = "H" -> "h" [] c = "A" -> "a" [] c = "T" -> "t"
      [] c = "G" -> "g" [] c = "X" -> "x" [] c = "I" -> "i"
      [] c = "Q" -> "q" [] c = "U" -> "u" [] c = "D" -> "d"
      [] OTHER -> c

\* str.lower()
RECURSIVE Lower(_)
Lower(s) == IF Len(s) = 0 THEN "" ELSE LowerChar(Head(s)) \o Lower(Tail(s))

\* str.startswith(p)
StartsWith(s, p) == Len(s) >= Len(p) /\ SubSeq(s, 1, Len(p)) = p

\* `p in s`
Contains(s, p) ==
    \E i \in 1..(Len(s) - Len(p) + 1) : SubSeq(s, i, i + Len(p) - 1) = p

\* index of the first occurrence of character c in s, 0 when there is none
RECURSIVE IndexOf(_, _, _)
IndexOf(s, c, i) ==
    IF i > Len(s) THEN 0
    ELSE IF Char(s, i) = c THEN i
    ELSE IndexOf(s, c, i + 1)

\* str.splitlines(): the lines without their line ends; no empty last line
RECURSIVE SplitLines(_)
SplitLines(s) ==
    IF Len(s) = 0 THEN << >>
    ELSE LET k == IndexOf(s, "\n", 1) IN
         IF k = 0 THEN << s >>
         ELSE << SubSeq(s, 1, k - 1) >> \o SplitLines(SubSeq(s, k + 1, Len(s)))

\* str.splitlines(keepends=True)
RECURSIVE SplitLinesKeep(_)
SplitLinesKeep(s) ==
    IF Len(s) = 0 THEN << >>
    ELSE LET k == IndexOf(s, "\n", 1) IN
         IF k = 0 THEN << s >>
         ELSE << SubSeq(s, 1, k) >> \o SplitLinesKeep(SubSeq(s, k + 1, Len(s)))

\* str.split(sep) for a one-character separator: always at least one piece
RECURSIVE Split(_, _)
Split(s, sep) ==
    LET k == IndexOf(s, sep, 1) IN
    IF k = 0 THEN << s >>
    ELSE << SubSeq(s, 1, k - 1) >> \o Split(SubSeq(s, k + 1, Len(s)), sep)

\* sep.join(parts)
RECURSIVE Join(_, _)
Join(sep, parts) ==
    IF Len(parts) = 0 THEN ""
    ELSE IF Len(parts) = 1 THEN parts[1]
    ELSE parts[1] \o sep \o Join(sep, Tail(parts))

\* "".join(parts)
Concat(parts) == Join("", parts)

\* the Markdown fence marker (see the note on "~" above)
Fence == "~~~"

-----------------------------------------------------------------------------
(* llm/ollama_client.py: a call either raises (transport error, non-2xx)   *)
(* or returns the response field stripped.  A call's outcome is a record.  *)

LLMFail == [ok |-> FALSE, text |-> ""]

generate(raw) == [ok |-> TRUE, text |-> Strip(raw)]

-----------------------------------------------------------------------------
(* agent/controller.py: sanitize_code_output                               *)

DropFirstFence(lines) ==
    IF Len(lines) > 0 /\ StartsWith(lines[1], Fence) THEN Tail(lines) ELSE lines

DropLastFence(lines) ==
    IF Len(lines) > 0 /\ StartsWith(lines[Len(lines)], Fence)
    THEN SubSeq(lines, 1, Len(lines) - 1)
    ELSE lines

sanitize_code_output(text) ==
    Strip(Join("\n", DropLastFence(DropFirstFence(SplitLines(Strip(text))))))

-----------------------------------------------------------------------------
(* tools/diff_tools.py: DiffTools.generate_diff.  difflib.unified_diff     *)
(* yields nothing when the two line lists are equal, and otherwise the two *)
(* file headers followed by hunks.  The hunk is laid out here as one hunk  *)
(* whose context is the common leading and trailing lines.                 *)

RECURSIVE CommonPrefixLen(_, _)
CommonPrefixLen(a, b) ==
    IF Len(a) > 0 /\ Len(b) > 0 /\ Head(a) = Head(b)
    THEN 1 + CommonPrefixLen(Tail(a), Tail(b))
    ELSE 0

Reverse(a) == [i \in 1..Len(a) |-> a[Len(a) + 1 - i]]

\* a line of the diff body: the prefix, the line, and a line end if it has none
DiffLine(prefix, line) ==
    prefix \o line \o (IF Len(line) > 0 /\ Char(line, Len(line)) = "\n" THEN "" ELSE "\n")

PrefixAll(prefix, lines) == [i \in 1..Len(lines) |-> DiffLine(prefix, lines[i])]

unified_diff(a, b, fromfile, tofile) ==
    IF a = b THEN << >>
    ELSE LET p    == CommonPrefixLen(a, b)
             ra   == SubSeq(a, p + 1, Len(a))
             rb   == SubSeq(b, p + 1, Len(b))
             q    == CommonPrefixLen(Reverse(ra), Reverse(rb))
             dela == SubSeq(ra, 1, Len(ra) - q)
             addb == SubSeq(rb, 1, Len(rb) - q)
             tail == SubSeq(ra, Len(ra) - q + 1, Len(ra))
         IN  << "--- " \o fromfile \o "\n", "+++ " \o tofile \o "\n", "@@\n" >>
             \o PrefixAll(" ", SubSeq(a, 1, p))
             \o PrefixAll("-", dela)
             \o PrefixAll("+", addb)
             \o PrefixAll(" ", tail)

\* the headers emitted whether or not a line differs
generate_diff_headers_always(original, modified, filename) ==
    "--- a/" \o filename \o "\n" \o "+++ b/" \o filename \o "\n"
    \o Concat(unified_diff(SplitLinesKeep(original), SplitLinesKeep(modified),
                           "a/" \o filename, "b/" \o filename))

generate_diff(original, modified, filename) ==
    Concat(unified_diff(SplitLinesKeep(original), SplitLinesKeep(modified),
                        "a/" \o filename, "b/" \o filename))

-----------------------------------------------------------------------------
(* agent/planner.py: Planner._parse_plan                                   *)

OrdinalChars == {"0", "1", "2", "3", "4", "5", "6", "7", "8", "9", ".", ")", " "}

\* the steps one line contributes: none or one
PlanStepsOfLine(rawline) ==
    LET line == Strip(rawline) IN
    IF Len(line) = 0 THEN << >>
    ELSE IF IsDigit(Head(line))
         THEN LET step == Strip(LStripSet(line, OrdinalChars)) IN
              IF Len(step) > 0 THEN << step >> ELSE << >>
         ELSE << >>

RECURSIVE PlanStepsOfLines(_)
PlanStepsOfLines(lines) ==
    IF Len(lines) = 0 THEN << >>
    ELSE PlanStepsOfLine(Head(lines)) \o PlanStepsOfLines(Tail(lines))

parse_plan(text) == PlanStepsOfLines(SplitLines(text))

-----------------------------------------------------------------------------
(* tools/file_tools.py.  An absolute path is the sequence of its           *)
(* components; the file system maps the paths that exist to a directory or *)
(* to a file with its content.  There are no symbolic links.               *)

\* FileTools.root_dir: the project root, already resolved
root_dir == << "w", "app" >>

\* str(path) of an absolute path
RECURSIVE PathStr(_)
PathStr(path) ==
    IF Len(path) = 0 THEN "/"
    ELSE IF Len(path) = 1 THEN "/" \o path[1]
    ELSE PathStr(SubSeq(path, 1, Len(path) - 1)) \o "/" \o path[Len(path)]

\* pathlib's parsing of a path string: empty and "." components vanish
RECURSIVE DropEmptyParts(_)
DropEmptyParts(parts) ==
    IF Len(parts) = 0 THEN << >>
    ELSE IF Head(parts) \in {"", "."} THEN DropEmptyParts(Tail(parts))
    ELSE << Head(parts) >> \o DropEmptyParts(Tail(parts))

PathParts(str) == DropEmptyParts(Split(str, "/"))

\* root_dir / relative_path: an absolute right operand replaces the left one
JoinPath(base, rel) ==
    IF StartsWith(rel, "/") THEN PathParts(rel) ELSE base \o PathParts(rel)

\* Path.resolve(): ".." steps to the parent, and the parent of "/" is "/"
RECURSIVE ResolveFrom(_, _)
ResolveFrom(done, parts) ==
    IF Len(parts) = 0 THEN done
    ELSE IF Head(parts) = ".."
         THEN ResolveFrom(IF Len(done) = 0 THEN done ELSE SubSeq(done, 1, Len(done) - 1),
                          Tail(parts))
         ELSE ResolveFrom(done \o << Head(parts) >>, Tail(parts))

Resolve(parts) == ResolveFrom(<< >>, parts)

AccessOutside == "Access outside working directory is not allowed"

\* FileTools._resolve_path: the path, or the FileToolError it raises
resolve_path(relative_path) ==
    LET path == Resolve(JoinPath(root_dir, relative_path)) IN
    IF ~ StartsWith(PathStr(path), PathStr(root_dir))
    THEN [ok |-> FALSE, path |-> path, error |-> AccessOutside]
    ELSE [ok |-> TRUE, path |-> path, error |-> ""]

PathExists(files, path) == path \in DOMAIN files

IsFile(files, path) == PathExists(files, path) /\ files[path].kind = "file"

IsDir(files, path) == PathExists(files, path) /\ files[path].kind = "dir"

DirNode == [kind |-> "dir", content |-> ""]

FileNode(content) == [kind |-> "file", content |-> content]

\* The outcome of a file operation: status "ok", "FileToolError" (error is
\* the message) or "OSError" (an exception of the operating system); text is
\* what a read returns, touched the paths whose content was read or written,
\* files the file system afterwards.
FileResult(status, error, text, touched, files) ==
    [status |-> status, error |-> error, text |-> text, touched |-> touched,
     files |-> files]

\* FileTools.read_file
read_file(files, relative_path) ==
    LET r == resolve_path(relative_path) IN
    IF ~ r.ok THEN FileResult("FileToolError", r.error, "", {}, files)
    ELSE IF ~ PathExists(files, r.path)
    THEN FileResult("FileToolError", "File not found: " \o relative_path, "", {}, files)
    ELSE IF ~ IsFile(files, r.path)
    THEN FileResult("FileToolError", "Not a file: " \o relative_path, "", {}, files)
    ELSE FileResult("ok", "", files[r.path].content, {r.path}, files)

\* the proper ancestors of a path, "/" excluded
Ancestors(path) == { SubSeq(path, 1, k) : k \in 1..(Len(path) - 1) }

\* path.parent.mkdir(parents=True, exist_ok=True): the missing ancestors
\* become directories
MkdirParents(files, path) ==
    LET missing == { a \in Ancestors(path) : ~ PathExists(files, a) } IN
    [p \in (DOMAIN files) \cup missing |-> IF p \in missing THEN DirNode ELSE files[p]]

\* path.write_text(content)
WriteText(files, path, content) ==
    [p \in (DOMAIN files) \cup {path} |-> IF p = path THEN FileNode(content) ELSE files[p]]

\* FileTools.write_file
write_file(files, relative_path, content, overwrite) ==
    LET r == resolve_path(relative_path) IN
    IF ~ r.ok THEN FileResult("FileToolError", r.error, "", {}, files)
    ELSE IF PathExists(files, r.path) /\ ~ overwrite
    THEN FileResult("FileToolError",
                    "File already exists: " \o relative_path
                        \o ". Set overwrite=True to overwrite.",
                    "", {}, files)
    ELSE IF \E a \in Ancestors(r.path) : IsFile(files, a)
    THEN FileResult("OSError", "mkdir", "", {}, files)
    ELSE IF IsDir(files, r.path) \/ Len(r.path) = 0
    THEN FileResult("OSError", "write_text", "", {}, MkdirParents(files, r.path))
    ELSE FileResult("ok", "", "", {r.path},
                    WriteText(MkdirParents(files, r.path), r.path, content))

-----------------------------------------------------------------------------
(* memory/types.py and the two persisted records.  A record on disk is     *)
(* absent, unparsable, or a JSON document.                                 *)

None == "None"

\* Message(role=role, content=content): the timestamp defaults to None
Message(role, content) == [role |-> role, content |-> content, timestamp |-> None]

ConversationSummary(summary, key_facts, user_preferences, last_updated) ==
    [summary |-> summary, key_facts |-> key_facts,
     user_preferences |-> user_preferences, last_updated |-> last_updated]

\* dataclasses.asdict of a Message or a ConversationSummary: a JSON object
\* with one member for each field
asdict(obj) == [k \in DOMAIN obj |-> obj[k]]

Absent == [state |-> "absent"]

Garbage == [state |-> "garbage"]

\* a file holding valid JSON that is neither an object nor a list: a number
JsonOther == [state |-> "json_other"]

\* json.dump(doc, f) into a file opened with 'w'
JsonFile(doc) == [state |-> "json", doc |-> doc]

-----------------------------------------------------------------------------
(* memory/summarizer.py                                                    *)

RoleLabel(msg) == IF msg.role = "user" THEN "User" ELSE "Assistant"

\* the role-labelled transcript, one line for each message
conversation_text(messages) ==
    Join("\n", [i \in 1..Len(messages) |->
                    RoleLabel(messages[i]) \o ": " \o messages[i].content])

StripAll(parts) == [i \in 1..Len(parts) |-> Strip(parts[i])]

AfterPrefix(line, prefix) == Strip(SubSeq(line, Len(prefix) + 1, Len(line)))

\* the parse of the reply: acc is (summary, facts, preferences) so far
RECURSIVE ParseSummaryLines(_, _)
ParseSummaryLines(lines, acc) ==
    IF Len(lines) = 0 THEN acc
    ELSE LET line == Head(lines)
             next ==
                IF StartsWith(line, "SUMMARY:")
                THEN [acc EXCEPT !.summary = AfterPrefix(line, "SUMMARY:")]
                ELSE IF StartsWith(line, "FACTS:")
                THEN LET str == AfterPrefix(line, "FACTS:") IN
                     IF Len(str) > 0
                     THEN [acc EXCEPT !.facts = StripAll(Split(str, ","))]
                     ELSE acc
                ELSE IF StartsWith(line, "PREFERENCES:")
                THEN LET str == AfterPrefix(line, "PREFERENCES:") IN
                     IF Len(str) > 0
                     THEN [acc EXCEPT !.preferences = StripAll(Split(str, ","))]
                     ELSE acc
                ELSE acc
         IN  ParseSummaryLines(Tail(lines), next)

ParseSummary(response) ==
    ParseSummaryLines(Split(Strip(response), "\n"),
                      [summary |-> "", facts |-> << >>, preferences |-> << >>])

\* a failed model call swallowed: the summary comes out empty
summarize_conversation_swallowing(messages, llm) ==
    IF Len(messages) = 0
    THEN [raised |-> FALSE, calls |-> 0, input |-> << >>, transcript |-> "",
          summary |-> "", facts |-> << >>, preferences |-> << >>]
    ELSE LET parsed == ParseSummary(llm.text) IN
         [raised |-> FALSE, calls |-> 1, input |-> messages,
          transcript |-> conversation_text(messages),
          summary |-> parsed.summary, facts |-> parsed.facts,
          preferences |-> parsed.preferences]

\* ConversationSummarizer.summarize_conversation, given the outcome `llm` of
\* the model call it would make: raised when the call fails, calls the number
\* of model calls made, input the messages the transcript was built from
summarize_conversation(messages, llm) ==
    IF Len(messages) = 0
    THEN [raised |-> FALSE, calls |-> 0, input |-> << >>, transcript |-> "",
          summary |-> "", facts |-> << >>, preferences |-> << >>]
    ELSE IF ~ llm.ok
    THEN [raised |-> TRUE, calls |-> 1, input |-> messages,
          transcript |-> conversation_text(messages),
          summary |-> "", facts |-> << >>, preferences |-> << >>]
    ELSE LET parsed == ParseSummary(llm.text) IN
         [raised |-> FALSE, calls |-> 1, input |-> messages,
          transcript |-> conversation_text(messages),
          summary |-> parsed.summary, facts |-> parsed.facts,
          preferences |-> parsed.preferences]

-----------------------------------------------------------------------------
(* memory/manager.py.  The store is the buffer in memory and the two       *)
(* records on disk: [buffer, session_file, summary_file].                  *)

max_short_term_messages == 10

\* the retained tail of a rotation
RetainedTail == 5

\* buffer[-n:]
LastN(seq, n) == IF Len(seq) <= n THEN seq ELSE SubSeq(seq, Len(seq) - n + 1, Len(seq))

\* buffer[:-n]
AllButLastN(seq, n) == IF Len(seq) <= n THEN << >> ELSE SubSeq(seq, 1, Len(seq) - n)

MemState(buffer, sessionFile, summaryFile) ==
    [buffer |-> buffer, session_file |-> sessionFile, summary_file |-> summaryFile]

\* the record written with the two lists in each other's place
save_summary_swapped(summary, key_facts, user_preferences) ==
    JsonFile(asdict(ConversationSummary(summary, user_preferences, key_facts, 0)))

\* MemoryManager.save_summary: the summary record it writes
save_summary(summary, key_facts, user_preferences) ==
    JsonFile(asdict(ConversationSummary(summary, key_facts, user_preferences, 0)))

\* MemoryManager._save_session: the session record it writes
save_session(buffer) == JsonFile([i \in 1..Len(buffer) |-> asdict(buffer[i])])

MessageFields == {"role", "content", "timestamp"}

\* Message(**msg) succeeds when msg has role and content and no unknown member
IsMessageDoc(obj) ==
    /\ {"role", "content"} \subseteq DOMAIN obj
    /\ DOMAIN obj \subseteq MessageFields

MessageOfDoc(obj) ==
    [role |-> obj.role, content |-> obj.content,
     timestamp |-> IF "timestamp" \in DOMAIN obj THEN obj.timestamp ELSE None]

\* MemoryManager._load_session on a new store (the buffer is empty): the
\* buffer it leaves, or the TypeError that escapes the constructor
load_session(sessionFile) ==
    IF sessionFile.state = "absent" THEN [raised |-> FALSE, buffer |-> << >>]
    ELSE IF sessionFile.state = "garbage" THEN [raised |-> FALSE, buffer |-> << >>]
    ELSE IF sessionFile.state = "json_other" THEN [raised |-> TRUE, buffer |-> << >>]
    ELSE IF \A i \in 1..Len(sessionFile.doc) : IsMessageDoc(sessionFile.doc[i])
    THEN [raised |-> FALSE,
          buffer |-> [i \in 1..Len(sessionFile.doc) |-> MessageOfDoc(sessionFile.doc[i])]]
    ELSE [raised |-> TRUE, buffer |-> << >>]

\* The outcome of a call on the store: the store afterwards, whether the call
\* raised, whether a rotation was triggered, and what the summarizer was
\* given and how often the model was called.
MemResult(mem, raised, rotated, sum) ==
    [mem |-> mem, raised |-> raised, rotated |-> rotated,
     sum_calls |-> sum.calls, sum_input |-> sum.input,
     sum_transcript |-> sum.transcript]

NoSummarizerCall == summarize_conversation(<< >>, LLMFail)

\* the rotation that archives but keeps the whole buffer
summarize_and_archive_keeping(mem, llm) ==
    LET archived_messages == AllButLastN(mem.buffer, RetainedTail)
        sum               == summarize_conversation(archived_messages, llm)
    IN  IF Len(archived_messages) > 0 /\ sum.raised
        THEN MemResult(mem, TRUE, TRUE, sum)
        ELSE MemResult(
                 MemState(mem.buffer,
                          save_session(mem.buffer),
                          IF Len(archived_messages) > 0
                          THEN save_summary(sum.summary, sum.facts, sum.preferences)
                          ELSE mem.summary_file),
                 FALSE, TRUE, sum)

\* the rotation that merges: the lists of the summary on record are kept in
\* front of the new ones
summarize_and_archive_merging(mem, llm) ==
    LET recent_messages   == LastN(mem.buffer, RetainedTail)
        archived_messages == AllButLastN(mem.buffer, RetainedTail)
        sum               == summarize_conversation(archived_messages, llm)
        old               == IF mem.summary_file.state = "json"
                                /\ {"key_facts", "user_preferences"}
                                       \subseteq DOMAIN mem.summary_file.doc
                             THEN mem.summary_file.doc
                             ELSE [key_facts |-> << >>, user_preferences |-> << >>]
    IN  IF Len(archived_messages) > 0 /\ sum.raised
        THEN MemResult(mem, TRUE, TRUE, sum)
        ELSE MemResult(
                 MemState(recent_messages,
                          save_session(recent_messages),
                          IF Len(archived_messages) > 0
                          THEN save_summary(sum.summary,
                                            old.key_facts \o sum.facts,
                                            old.user_preferences \o sum.preferences)
                          ELSE mem.summary_file),
                 FALSE, TRUE, sum)

\* MemoryManager._summarize_and_archive
summarize_and_archive(mem, llm) ==
    LET recent_messages   == LastN(mem.buffer, RetainedTail)
        archived_messages == AllButLastN(mem.buffer, RetainedTail)
        sum               == summarize_conversation(archived_messages, llm)
    IN  IF Len(archived_messages) > 0 /\ sum.raised
        THEN MemResult(mem, TRUE, TRUE, sum)
        ELSE MemResult(
                 MemState(recent_messages,
                          save_session(recent_messages),
                          IF Len(archived_messages) > 0
                          THEN save_summary(sum.summary, sum.facts, sum.preferences)
                          ELSE mem.summary_file),
                 FALSE, TRUE, sum)

\* the call that returns without appending
add_message_dropping(mem, role, content, llm) ==
    MemResult(mem, FALSE, FALSE, NoSummarizerCall)

\* MemoryManager.add_message
add_message(mem, role, content, llm) ==
    LET appended == [mem EXCEPT !.buffer = Append(mem.buffer, Message(role, content))] IN
    IF Len(appended.buffer) > max_short_term_messages
    THEN summarize_and_archive(appended, llm)
    ELSE MemResult(appended, FALSE, FALSE, NoSummarizerCall)

\* the session file removed without the check that it exists:
\* Path.unlink raises when there is no file
clear_session_unchecked(mem) ==
    [mem    |-> MemState(<< >>, Absent, mem.summary_file),
     raised |-> mem.session_file = Absent]

\* the whole memory directory cleared, the summary record too
clear_session_and_summary(mem) ==
    [mem    |-> MemState(<< >>, Absent, Absent),
     raised |-> FALSE]

\* MemoryManager.clear_session
clear_session(mem) ==
    [mem    |-> MemState(<< >>,
                         IF mem.session_file # Absent THEN Absent ELSE mem.session_file,
                         mem.summary_file),
     raised |-> FALSE]

\* MemoryManager.get_recent_context
get_recent_context(buffer, n) ==
    IF Len(buffer) = 0 THEN << >>
    ELSE IF n = 0 THEN buffer
    ELSE LastN(buffer, n)

SummaryFields == {"summary", "key_facts", "user_preferences", "last_updated"}

NoSummary == ConversationSummary("", << >>, << >>, 0)

\* MemoryManager.get_summary: found is FALSE when it returns None; raised
\* when ConversationSummary(**data) fails with a TypeError, which the
\* except clause does not catch
get_summary(summaryFile) ==
    IF summaryFile.state \in {"absent", "garbage"}
    THEN [raised |-> FALSE, found |-> FALSE, value |-> NoSummary]
    ELSE IF summaryFile.state = "json_other"
    THEN [raised |-> TRUE, found |-> FALSE, value |-> NoSummary]
    ELSE IF DOMAIN summaryFile.doc = SummaryFields
    THEN [raised |-> FALSE, found |-> TRUE,
          value |-> ConversationSummary(summaryFile.doc.summary,
                                        summaryFile.doc.key_facts,
                                        summaryFile.doc.user_preferences,
                                        summaryFile.doc.last_updated)]
    ELSE [raised |-> TRUE, found |-> FALSE, value |-> NoSummary]

-----------------------------------------------------------------------------
(* agent/chat_handler.py: ChatModeHandler._build_chat_prompt               *)

SummaryBlock(summary) ==
    << "CONVERSATION CONTEXT:", "Summary: " \o summary.summary >>
    \o (IF Len(summary.user_preferences) > 0
        THEN << "User preferences: " \o Join(", ", summary.user_preferences) >>
        ELSE << >>)
    \o (IF Len(summary.key_facts) > 0
        THEN << "Key facts: " \o Join(", ", summary.key_facts) >>
        ELSE << >>)
    \o << "" >>

RecentBlock(recent_messages) ==
    IF Len(recent_messages) = 0 THEN << >>
    ELSE << "RECENT CONVERSATION:" >>
         \o [i \in 1..Len(recent_messages) |->
                RoleLabel(recent_messages[i]) \o ": " \o recent_messages[i].content]
         \o << "" >>

ChatWindow == 8

\* the prompt, given the store; raised when get_summary raises
build_chat_prompt(mem, input) ==
    LET recent_messages == get_recent_context(mem.buffer, ChatWindow)
        summary         == get_summary(mem.summary_file)
    IN  [raised |-> summary.raised,
         prompt |-> Join("\n",
                         (IF summary.found THEN SummaryBlock(summary.value) ELSE << >>)
                         \o RecentBlock(recent_messages)
                         \o << "User: " \o input, "Assistant:" >>)]

-----------------------------------------------------------------------------
(* The state.                                                              *)

VARIABLES
    current_mode,    \* AgentController.current_mode
    pc,              \* where the interactive loop stands: at its prompt, at a
                     \* blocking call of the running turn, or exited
    user_input,      \* the input of the running (or last) turn
    original_code,   \* _handle_agent_mode: the content read from the target
    modified_code,   \* _handle_agent_mode: the sanitized proposal
    chat_prompt,     \* process_chat: the prompt built for the reply call
    trace,           \* the events of the running (or last) turn, in order
    outcome,         \* what the last finished turn reported
    files0,          \* the file system when the running (or last) turn began
    handler,         \* handle_user_input: the handler the running (or last)
                     \* turn went to, and whether auto-detection chose it
    mem0,            \* the memory store when the running (or last) turn began
    plan,            \* _handle_agent_mode: the plan; _parse_plan's last result
    files,           \* the file system
    ft_call,         \* the last call made directly on the file tools
    session_buffer,  \* MemoryManager.session_buffer
    session_file,    \* memory/session.json
    summary_file,    \* memory/summary.json
    mem_call,        \* the last call on the memory store and what it did
    msg_count        \* number of add_message calls so far

ctlVars == << current_mode, pc, user_input, original_code, modified_code,
              chat_prompt, trace, outcome, files0, handler, mem0, plan >>

fsVars == << files, ft_call >>

memVars == << session_buffer, session_file, summary_file, mem_call, msg_count >>

vars == << ctlVars, fsVars, memVars >>

-----------------------------------------------------------------------------
(* Bounds and the inputs the environment supplies.                         *)

\* add_message calls in a run of the interactive loop
MaxSessionMsgs == 4

\* add_message calls in a run of the memory store on its own
MaxMsgs == 8

\* _handle_agent_mode: the fixed target
target_file == "cli/main.py"

TargetPath == root_dir \o PathParts(target_file)

\* a file that lies next to the project root, in a directory whose name
\* begins with the root's name
SiblingDir == << "w", "app2" >>

BaseFiles ==
    [p \in { << "w" >>, root_dir, root_dir \o << "cli" >>, SiblingDir,
             SiblingDir \o << "secret" >> }
        |-> IF p = SiblingDir \o << "secret" >> THEN FileNode("key") ELSE DirNode]

WithTarget(node) ==
    [p \in (DOMAIN BaseFiles) \cup {TargetPath}
        |-> IF p = TargetPath THEN node ELSE BaseFiles[p]]

OriginalContents == { "a", "a\n", "  a\nb\n" }

\* the file systems a run starts on: the target is a file, is missing, or is
\* a directory
InitialFiles ==
    { WithTarget(FileNode(c)) : c \in OriginalContents }
    \cup { BaseFiles, WithTarget(DirNode) }

\* what is typed at the loop's prompt
ConsoleLines == { "exit", " Chat ", "AGENT", "  ", "add x" }

\* the raw replies of the model to the planner
PlanReplies == { "1. Do X\n2) Do Y", "Sure, here is some text" }

\* the raw replies of the model to the proposal and to its retry
CodeReplies == { "a", "b\n", "~~~py\nb\n~~~", "note\n~~~\nb\n~~~" }

\* what is typed at the confirmation prompt
ConfirmAnswers == { "yes", " Y ", "no", "", "maybe", "yes please" }

\* the raw replies of the model to the chat handler
ChatReplies == { "hello" }

\* the raw replies of the model to the summarizer
SummarizerReplies ==
    { "SUMMARY: talk\nFACTS: f1, f2\nPREFERENCES: p1", "SUMMARY: short", "nothing" }

Outcomes(replies) == { generate(raw) : raw \in replies } \cup { LLMFail }

Roles == { "user", "assistant" }

-----------------------------------------------------------------------------
(* Records of what happened.                                               *)

\* an event of a turn
Event(ev, ok, path, text, n) ==
    [ev |-> ev, ok |-> ok, path |-> path, text |-> text, n |-> n]

\* the record of a call made directly on the file tools: before is the file
\* system when it was made
FtCall(op, relative_path, result, before) ==
    [op |-> op, relative_path |-> relative_path, result |-> result, before |-> before]

NoFtCall(fs) == FtCall("none", "", FileResult("ok", "", "", {}, fs), fs)

Mem == MemState(session_buffer, session_file, summary_file)

\* the arguments of a call that has none
NoArgs == [n |-> 0, summary |-> "", key_facts |-> << >>, user_preferences |-> << >>]

\* the record of a call on the store: r is its outcome, before the store
\* when it was made, triggered the buffer on which a rotation was triggered,
\* llm the outcome the model had for the summarizer (if it was called)
MemCall(op, r, before, triggered, llm) ==
    [op |-> op, raised |-> r.raised, rotated |-> r.rotated, llm |-> llm,
     sum_calls |-> r.sum_calls, sum_input |-> r.sum_input,
     sum_transcript |-> r.sum_transcript,
     before |-> before, triggered |-> triggered,
     prev |-> "none", args |-> NoArgs,
     ret_context |-> << >>, ret_summary |-> get_summary(Absent)]

\* the record of a call that follows another: prev is the call before it
After(call) == [call EXCEPT !.prev = mem_call.op]

NoMemResult == MemResult(Mem, FALSE, FALSE, NoSummarizerCall)

SetMem(mem) ==
    /\ session_buffer' = mem.buffer
    /\ session_file' = mem.session_file
    /\ summary_file' = mem.summary_file

-----------------------------------------------------------------------------
(* The initial states.                                                     *)

\* what a turn reports when it ends: the kind of ending and the message shown
Report(kind, message) == [kind |-> kind, message |-> message]

\* the handler an input went to; auto tells that the auto-detection chose it
Handler(name, auto) == [name |-> name, auto |-> auto]

CtlInit ==
    /\ current_mode = "agent"
    /\ pc = "prompt"
    /\ user_input = ""
    /\ original_code = ""
    /\ modified_code = ""
    /\ chat_prompt = ""
    /\ trace = << >>
    /\ outcome = Report("none", "")
    /\ files0 = files
    /\ handler = Handler("none", FALSE)
    /\ plan = << >>

\* the outcome of the constructor: it raises when _load_session does
InitResult(sessionFile) ==
    MemResult(MemState(load_session(sessionFile).buffer, sessionFile, Absent),
              load_session(sessionFile).raised, FALSE, NoSummarizerCall)

\* MemoryManager.__init__ on a memory directory holding the two records
MemInit(sessionFile, summaryFile) ==
    /\ session_file = sessionFile
    /\ summary_file = summaryFile
    /\ session_buffer = load_session(sessionFile).buffer
    /\ mem0 = MemState(load_session(sessionFile).buffer, sessionFile, summaryFile)
    /\ mem_call = MemCall("init", InitResult(sessionFile),
                          MemState(<< >>, sessionFile, summaryFile), << >>, LLMFail)
    /\ msg_count = 0

Init ==
    /\ files \in InitialFiles
    /\ ft_call = NoFtCall(files)
    /\ CtlInit
    /\ MemInit(Absent, Absent)

-----------------------------------------------------------------------------
(* cli/main.py: run, one pass of its loop, with                            *)
(* AgentController.handle_user_input.  `cap` bounds the add_message calls  *)
(* of the run.                                                             *)

IsExit(line) == Lower(Strip(line)) \in {"exit", "quit"}

IsBlank(line) == Strip(line) = ""

\* the mode after the line, and whether the line was a mode keyword
ModeKeyword(line) == Lower(Strip(line)) \in {"chat", "agent"}

\* index of the first whitespace character of s from i on, 0 when there is none
RECURSIVE FirstSpace(_, _)
FirstSpace(s, i) ==
    IF i > Len(s) THEN 0
    ELSE IF IsSpace(Char(s, i)) THEN i
    ELSE FirstSpace(s, i + 1)

\* str.split(): the words between runs of whitespace
RECURSIVE Words(_)
Words(s) ==
    LET t == LStripSet(s, Whitespace)
        k == FirstSpace(t, 1)
    IN  IF t = "" THEN << >>
        ELSE IF k = 0 THEN << t >>
        ELSE << SubSeq(t, 1, k - 1) >> \o Words(SubSeq(t, k, Len(t)))

question_indicators ==
    { "who", "what", "when", "where", "why", "how", "is", "are", "can", "could",
      "would", "should", "do", "does", "did" }

coding_indicators ==
    { "create", "make", "write", "change", "modify", "add", "update", "fix",
      "implement", "build", "code", "function", "class", "file", "module" }

\* AgentController._should_use_chat_mode
should_use_chat_mode(line) ==
    LET user_input_lower == Strip(Lower(line))
        words            == Words(user_input_lower)
    IN  IF \/ StartsWith(user_input_lower, "chat")
           \/ StartsWith(user_input_lower, "tell me")
           \/ StartsWith(user_input_lower, "explain")
        THEN TRUE
        ELSE IF \/ (Len(words) > 0 /\ words[1] \in question_indicators)
                \/ Contains(line, "?")
        THEN ~ \E indicator \in coding_indicators :
                   Contains(user_input_lower, indicator)
        ELSE FALSE

\* the dispatch with the mode ignored: every input auto-detected
handle_user_input_auto(mode, line) ==
    IF should_use_chat_mode(line) THEN Handler("chat", TRUE) ELSE Handler("agent", TRUE)

\* AgentController.handle_user_input: the handler the input goes to
handle_user_input(mode, line) ==
    IF mode = "chat" THEN Handler("chat", FALSE)
    ELSE IF mode = "agent" THEN Handler("agent", FALSE)
    ELSE IF should_use_chat_mode(line) THEN Handler("chat", TRUE)
    ELSE Handler("agent", TRUE)

BeginTurn(line, next) ==
    /\ pc' = next
    /\ user_input' = line
    /\ trace' = << >>
    /\ files0' = files
    /\ handler' = handle_user_input(current_mode, line)
    /\ mem0' = Mem
    /\ plan' = << >>
    /\ original_code' = ""
    /\ modified_code' = ""
    /\ chat_prompt' = ""
    /\ UNCHANGED << current_mode, outcome >>

Run(cap) ==
    /\ pc = "prompt"
    /\ \E line \in ConsoleLines :
          IF IsExit(line)
          THEN /\ pc' = "exited"
               /\ UNCHANGED << current_mode, user_input, original_code, modified_code,
                               chat_prompt, trace, outcome, files0, handler,
                               mem0, plan >>
          ELSE IF ModeKeyword(line)
          THEN /\ current_mode' = Lower(Strip(line))
               /\ UNCHANGED << pc, user_input, original_code, modified_code,
                               chat_prompt, trace, outcome, files0, handler,
                               mem0, plan >>
          ELSE IF IsBlank(line)
          THEN UNCHANGED ctlVars
          ELSE IF handle_user_input(current_mode, line).name = "chat"
          THEN /\ msg_count + 2 <= cap
               /\ BeginTurn(line, "chat_user")
          ELSE BeginTurn(line, "planning")
    /\ UNCHANGED << fsVars, memVars >>

\* a turn ends: the loop is back at its prompt
EndTurn(result) ==
    /\ pc' = "prompt"
    /\ outcome' = result

\* the store and the call record after add_message(role, content) with outcome r
ApplyAdd(role, content, r, llm) ==
    /\ SetMem(r.mem)
    /\ mem_call' = After(MemCall("add_message", r, Mem,
                                 IF r.rotated
                                 THEN Append(session_buffer, Message(role, content))
                                 ELSE << >>,
                                 llm))
    /\ msg_count' = msg_count + 1

\* str(e) of the exception a failed model call raises
TransportError == "transport error"

-----------------------------------------------------------------------------
(* agent/controller.py: AgentController._handle_agent_mode, from one       *)
(* blocking call to the next.                                              *)

\* the emptiness check of the plan left out
PlanNeverEmpty(steps) == FALSE

\* `if not plan`
PlanIsEmpty(steps) == Len(steps) = 0

\* the failure of the read ignored
ReadNeverFailed(r) == FALSE

\* `except FileToolError` around read_file
ReadFailed(r) == r.status # "ok"

\* the emptiness check of the diff left out
DiffNeverEmpty(diff) == FALSE

\* `if not diff.strip()`
DiffIsEmpty(diff) == Strip(diff) = ""

\* anything but a refusal taken as consent
IsAffirmativeUnlessNo(confirm) == confirm \notin {"no", "n"}

\* `if confirm not in {"yes", "y"}`, negated
IsAffirmative(confirm) == confirm \in {"yes", "y"}

\* a retry for as long as the output holds a fence
RetryWhileFenced(modified, attempt) == Contains(modified, Fence)

\* `if "```" in modified_code`, reached for the first attempt only
RetryWanted(modified, attempt) == attempt = 1 /\ Contains(modified, Fence)

\* the planner's call returns; the target is read
PlanStep ==
    /\ pc = "planning"
    /\ \E llm \in Outcomes(PlanReplies) :
          LET steps  == parse_plan(llm.text)
              planEv == Event("plan", llm.ok, "", llm.text, Len(steps))
              r      == read_file(files, target_file)
              readEv == Event("read", r.status = "ok", target_file, r.text, 0)
          IN  IF ~ llm.ok
              THEN /\ trace' = << planEv >>
                   /\ EndTurn(Report("error", TransportError))
                   /\ UNCHANGED << original_code, plan >>
              ELSE IF PlanIsEmpty(steps)
              THEN /\ trace' = << planEv >>
                   /\ plan' = steps
                   /\ EndTurn(Report("no_plan", "Failed to generate a plan."))
                   /\ UNCHANGED original_code
              ELSE IF ReadFailed(r)
              THEN /\ trace' = << planEv, readEv >>
                   /\ plan' = steps
                   /\ EndTurn(Report("file_error", r.error))
                   /\ UNCHANGED original_code
              ELSE /\ trace' = << planEv, readEv >>
                   /\ plan' = steps
                   /\ original_code' = r.text
                   /\ pc' = "proposing"
                   /\ UNCHANGED outcome
    /\ UNCHANGED << current_mode, user_input, modified_code, chat_prompt, files0,
                    handler, mem0 >>
    /\ UNCHANGED << fsVars, memVars >>

\* the diff of the final proposal: the turn ends, or waits for the answer
DiffStage(modified, tr) ==
    LET diff == generate_diff(original_code, modified, target_file) IN
    /\ modified_code' = modified
    /\ IF DiffIsEmpty(diff)
       THEN /\ trace' = Append(tr, Event("diff", FALSE, target_file, diff, 0))
            /\ EndTurn(Report("no_changes", "No changes detected."))
       ELSE /\ trace' = Append(tr, Event("diff", TRUE, target_file, diff, 0))
            /\ pc' = "confirming"
            /\ UNCHANGED outcome

\* a failed first call answered with the retry instead of ending the turn
ProposalReturnsRetryOnError(attempt, llm) ==
    LET ev       == Event(IF attempt = 1 THEN "propose" ELSE "retry",
                          llm.ok, "", llm.text, attempt)
        modified == sanitize_code_output(llm.text)
    IN  IF ~ llm.ok /\ attempt = 2
        THEN /\ trace' = Append(trace, ev)
             /\ EndTurn(Report("error", TransportError))
             /\ UNCHANGED modified_code
        ELSE IF ~ llm.ok \/ RetryWanted(modified, attempt)
        THEN /\ trace' = Append(trace, ev)
             /\ modified_code' = modified
             /\ pc' = "retrying"
             /\ UNCHANGED outcome
        ELSE DiffStage(modified, Append(trace, ev))

\* a proposal call returns: attempt 1 is the first call, attempt 2 the retry
ProposalReturns(attempt, llm) ==
    LET ev       == Event(IF attempt = 1 THEN "propose" ELSE "retry",
                          llm.ok, "", llm.text, attempt)
        modified == sanitize_code_output(llm.text)
    IN  IF ~ llm.ok
        THEN /\ trace' = Append(trace, ev)
             /\ EndTurn(Report("error", TransportError))
             /\ UNCHANGED modified_code
        ELSE IF RetryWanted(modified, attempt)
        THEN /\ trace' = Append(trace, ev)
             /\ modified_code' = modified
             /\ pc' = "retrying"
             /\ UNCHANGED outcome
        ELSE DiffStage(modified, Append(trace, ev))

ProposeStep ==
    /\ pc = "proposing"
    /\ \E llm \in Outcomes(CodeReplies) : ProposalReturns(1, llm)
    /\ UNCHANGED << current_mode, user_input, original_code, chat_prompt, files0,
                    handler, mem0, plan >>
    /\ UNCHANGED << fsVars, memVars >>

RetryStep ==
    /\ pc = "retrying"
    /\ \E llm \in Outcomes(CodeReplies) : ProposalReturns(2, llm)
    /\ UNCHANGED << current_mode, user_input, original_code, chat_prompt, files0,
                    handler, mem0, plan >>
    /\ UNCHANGED << fsVars, memVars >>

\* the answer to "Apply changes?" arrives
ConfirmStep ==
    /\ pc = "confirming"
    /\ \E answer \in ConfirmAnswers :
          LET confirm   == Lower(Strip(answer))
              r         == write_file(files, target_file, modified_code, TRUE)
          IN  IF ~ IsAffirmative(confirm)
              THEN /\ trace' = Append(trace, Event("confirm", FALSE, "", answer, 0))
                   /\ EndTurn(Report("discarded", ">> Changes discarded <<"))
                   /\ UNCHANGED files
              ELSE /\ trace' = trace \o
                          << Event("confirm", TRUE, "", answer, 0),
                             Event("write", r.status = "ok", target_file, modified_code, 0) >>
                   /\ files' = r.files
                   /\ IF r.status = "ok"
                      THEN EndTurn(Report("applied", "Changes successfully applied!"))
                      ELSE EndTurn(Report("error", r.error))
    /\ UNCHANGED << current_mode, user_input, original_code, modified_code,
                    chat_prompt, files0, handler, mem0, plan,
                    ft_call >>
    /\ UNCHANGED memVars

-----------------------------------------------------------------------------
(* agent/controller.py: _handle_chat_mode with                             *)
(* agent/chat_handler.py: ChatModeHandler.process_chat, from one blocking  *)
(* call to the next.                                                       *)

\* an add_message call of the turn and its trace: the summarizer's model call
\* (when one was made) and the call itself
ChatAdd(role, content, llm) ==
    LET r  == add_message(Mem, role, content, llm)
        ev == Event("add_" \o role, ~ r.raised, "", content, 0)
    IN  [r |-> r, llm |-> llm,
         events |-> IF r.sum_calls > 0
                    THEN << Event("summarize", llm.ok, "", llm.text, 0), ev >>
                    ELSE << ev >>]

ApplyChatAdd(role, content, r) == ApplyAdd(role, content, r.r, r.llm)

\* the user's message is added (a rotation may call the model) and the prompt
\* is built
ChatUserStep ==
    /\ pc = "chat_user"
    /\ \E llm \in Outcomes(SummarizerReplies) :
          \E a \in { ChatAdd("user", user_input, llm) } :
          \E b \in { build_chat_prompt(a.r.mem, user_input) } :
              /\ ApplyChatAdd("user", user_input, a)
              /\ trace' = trace \o a.events
              /\ IF a.r.raised
                 THEN /\ EndTurn(Report("error", TransportError))
                      /\ UNCHANGED chat_prompt
                 ELSE IF b.raised
                 THEN /\ EndTurn(Report("error", "TypeError"))
                      /\ UNCHANGED chat_prompt
                 ELSE /\ chat_prompt' = b.prompt
                      /\ pc' = "chat_reply"
                      /\ UNCHANGED outcome
    /\ UNCHANGED << current_mode, user_input, original_code, modified_code, files0,
                    handler, mem0, plan >>
    /\ UNCHANGED fsVars

\* the reply call returns and the reply is added (a rotation may call the
\* model)
ChatReplyStep ==
    /\ pc = "chat_reply"
    /\ \E llm \in Outcomes(ChatReplies), sumllm \in Outcomes(SummarizerReplies) :
          LET ev == Event("reply", llm.ok, "", llm.text, 0)
              a  == ChatAdd("assistant", llm.text, sumllm)
          IN  IF ~ llm.ok
              THEN /\ trace' = Append(trace, ev)
                   /\ EndTurn(Report("error", TransportError))
                   /\ UNCHANGED memVars
              ELSE /\ ApplyChatAdd("assistant", llm.text, a)
                   /\ trace' = Append(trace, ev) \o a.events
                   /\ IF a.r.raised
                      THEN EndTurn(Report("error", TransportError))
                      ELSE EndTurn(Report("replied", llm.text))
    /\ UNCHANGED << current_mode, user_input, original_code, modified_code,
                    chat_prompt, files0, handler, mem0, plan >>
    /\ UNCHANGED fsVars

-----------------------------------------------------------------------------
(* The interactive loop.                                                   *)

Next ==
    \/ Run(MaxSessionMsgs)
    \/ PlanStep
    \/ ProposeStep
    \/ RetryStep
    \/ ConfirmStep
    \/ ChatUserStep
    \/ ChatReplyStep

Spec == Init /\ [][Next]_vars

-----------------------------------------------------------------------------
(* Properties of the agent-mode turn.                                      *)

\* no turn is running: the loop waits at its prompt or has exited
TurnOver == pc \in {"prompt", "exited"}

EventsOf(kinds) == { i \in DOMAIN trace : trace[i].ev \in kinds }

\* an answer that, trimmed and lower-cased, is neither "yes" nor "y"
Declines(answer) == Lower(Strip(answer)) \notin {"yes", "y"}

Written == { i \in EventsOf({"write"}) : trace[i].ok }

\* C1: in an agent-mode turn whose confirmation answer, trimmed and
\* lower-cased, is anything other than "yes" or "y", no file is written and
\* the file system is as it was when the turn began.
C1_DeclineWritesNothing ==
    \A i \in EventsOf({"confirm"}) :
        Declines(trace[i].text)
            => /\ EventsOf({"write"}) = {}
               /\ files = files0
               /\ i = Len(trace)
               /\ TurnOver
               /\ outcome.kind = "discarded"

C1_Witness ==
    /\ pc = "prompt"
    /\ \E i \in EventsOf({"confirm"}) : trace[i].text = "maybe"
    /\ IsFile(files, TargetPath)
    /\ files[TargetPath].content # modified_code

\* C2: in an agent-mode turn a file is written at most once, and only after a
\* non-empty plan, a successful read of the target, a non-empty diff and an
\* affirmative answer, in this order; the path written is the path read, and
\* the content written is the sanitized output of the last proposal call (the
\* retry's when there was one), from which the displayed diff was computed.
C2_WriteOnlyAfterGate ==
    /\ Cardinality(Written) <= 1
    /\ files # files0 => Written # {}
    /\ \A w \in Written :
          \E p, r, d, c \in DOMAIN trace :
             /\ p < r /\ r < d /\ d < c /\ c < w
             /\ trace[p].ev = "plan" /\ trace[p].ok
             /\ Len(parse_plan(trace[p].text)) > 0
             /\ trace[r].ev = "read" /\ trace[r].ok
             /\ trace[d].ev = "diff" /\ Strip(trace[d].text) # ""
             /\ trace[c].ev = "confirm" /\ ~ Declines(trace[c].text)
             /\ trace[w].path = trace[r].path
             /\ LET calls == EventsOf({"propose", "retry"})
                    last  == CHOOSE k \in calls : \A j \in calls : j <= k
                IN  /\ calls # {} /\ r < last /\ last < d
                    /\ (EventsOf({"retry"}) # {} => trace[last].ev = "retry")
                    /\ trace[last].ok
                    /\ trace[w].text = sanitize_code_output(trace[last].text)
                    /\ trace[d].text =
                          generate_diff(trace[r].text, trace[w].text, trace[r].path)
             /\ IsFile(files, TargetPath)
             /\ files[TargetPath].content = trace[w].text

C2_Witness ==
    /\ Written # {}
    /\ EventsOf({"retry"}) # {}
    /\ files # files0

\* C5: the proposal step of an agent-mode turn makes at most two model calls:
\* one when the first sanitized output holds no fence marker, two when it
\* does; after the retry the turn goes on to the diff even if the retried
\* output still holds a fence marker.
C5_AtMostOneRetry ==
    LET calls == EventsOf({"propose", "retry"}) IN
    /\ Cardinality(calls) <= 2
    /\ \A i \in EventsOf({"propose"}) :
          trace[i].ok =>
             IF Contains(sanitize_code_output(trace[i].text), Fence)
             THEN pc # "retrying" => Cardinality(calls) = 2
             ELSE Cardinality(calls) = 1 /\ pc # "retrying"
    /\ \A k \in EventsOf({"retry"}) :
          trace[k].ok => Len(trace) > k /\ trace[k + 1].ev = "diff"

C5_Witness ==
    \E k \in EventsOf({"retry"}) :
       /\ trace[k].ok
       /\ Contains(sanitize_code_output(trace[k].text), Fence)
       /\ Len(trace) > k /\ trace[k + 1].ev = "diff"
       /\ Cardinality(EventsOf({"propose", "retry"})) = 2

\* C9: when the planner returns an empty plan the agent turn ends there with
\* a reported failure: the target is not read, no proposal call is made, no
\* confirmation is requested and nothing is written.
C9_EmptyPlanEndsTurn ==
    \A i \in EventsOf({"plan"}) :
        (trace[i].ok /\ parse_plan(trace[i].text) = << >>)
            => /\ Len(trace) = 1
               /\ TurnOver
               /\ outcome = Report("no_plan", "Failed to generate a plan.")
               /\ files = files0

C9_Witness ==
    /\ Len(trace) = 1
    /\ trace[1].ev = "plan" /\ trace[1].ok
    /\ trace[1].text = "Sure, here is some text"
    /\ outcome.kind = "no_plan"

\* the contents the diff of a text with itself is computed for
DiffContents == OriginalContents \cup CodeReplies \cup { "", "\n", original_code, modified_code }

\* C10: the diff of any content with itself is empty, and whenever the diff
\* computed in an agent turn is empty the turn ends with the 'no changes'
\* notice, without a confirmation request and without a write.
C10_EmptyDiffSkipsConfirm ==
    /\ \A c \in DiffContents : generate_diff(c, c, target_file) = ""
    /\ \A d \in EventsOf({"diff"}) :
          Strip(trace[d].text) = ""
             => /\ d = Len(trace)
                /\ TurnOver
                /\ outcome = Report("no_changes", "No changes detected.")
                /\ EventsOf({"confirm", "write"}) = {}
                /\ files = files0

C10_Witness ==
    /\ \E d \in EventsOf({"diff"}) : trace[d].text = ""
    /\ original_code = "a"
    /\ outcome.kind = "no_changes"

-----------------------------------------------------------------------------
(* The agent turn when a model call fails.                                 *)

ModelCalls == EventsOf({"plan", "propose", "retry"})

\* C11: a model call of an agent turn that fails (the planner's, the first
\* proposal or the retry) is the last thing the turn does: the turn is over
\* with the error shown, no model call follows it, and no file was written.
C11_ModelFailureEndsTurn ==
    \A i \in ModelCalls :
        ~ trace[i].ok => /\ i = Len(trace)
                         /\ TurnOver
                         /\ outcome = Report("error", TransportError)
                         /\ Written = {}
                         /\ files = files0

C11_Witness ==
    /\ pc = "prompt"
    /\ \E i \in EventsOf({"retry"}) : ~ trace[i].ok
    /\ \E j \in EventsOf({"propose"}) : trace[j].ok
    /\ outcome.kind = "error"

-----------------------------------------------------------------------------
(* The mode and the dispatch of an input.                                  *)

TurnBegins == pc = "prompt" /\ pc' \in {"chat_user", "planning"}

\* C12: the mode is "agent" at first and always "chat" or "agent"; it changes
\* only by a step of the loop at its prompt that takes a mode keyword and
\* starts no turn; an input that starts a turn goes to the handler of the
\* current mode, never through the auto-detection, and leaves the mode alone.
C12_ModeOnlyByKeyword ==
    /\ current_mode = "agent"
    /\ [](current_mode \in {"chat", "agent"} /\ ~ handler.auto)
    /\ [][ /\ current_mode' # current_mode =>
                /\ pc = "prompt" /\ pc' = "prompt"
                /\ \E line \in ConsoleLines :
                      /\ Lower(Strip(line)) = current_mode'
                      /\ Lower(Strip(line)) \in {"chat", "agent"}
                /\ UNCHANGED << user_input, trace, outcome, handler, fsVars, memVars >>
           /\ TurnBegins =>
                /\ current_mode' = current_mode
                /\ handler' = Handler(current_mode, FALSE)
                /\ pc' = (IF current_mode = "chat" THEN "chat_user" ELSE "planning")
                /\ ~ ModeKeyword(user_input') /\ ~ IsBlank(user_input')
                /\ ~ IsExit(user_input')
         ]_vars

C12_Witness ==
    /\ current_mode = "chat"
    /\ pc = "chat_user"
    /\ handler = Handler("chat", FALSE)
    /\ user_input = "add x"

-----------------------------------------------------------------------------
(* The file tools on their own: read_file and write_file called with any   *)
(* relative path.                                                          *)

RelPaths ==
    { "cli/main.py", "cli/../x", "cli", "../app2/secret", "../app2/new",
      "../other/f", "..", "../../etc/passwd", "./cli/./main.py" }

WriteContents == { "a", "z" }

ReadFileCall ==
    /\ \E rel \in RelPaths :
          LET r == read_file(files, rel) IN
          /\ ft_call' = FtCall("read_file", rel, r, files)
          /\ files' = r.files
    /\ UNCHANGED << ctlVars, memVars >>

WriteFileCall ==
    /\ \E rel \in RelPaths, content \in WriteContents, overwrite \in BOOLEAN :
          LET r == write_file(files, rel, content, overwrite) IN
          /\ ft_call' = FtCall("write_file", rel, r, files)
          /\ files' = r.files
    /\ UNCHANGED << ctlVars, memVars >>

FileNext == ReadFileCall \/ WriteFileCall

FileSpec == Init /\ [][FileNext]_vars

\* the path is the root or lies below it
InsideRoot(path) ==
    /\ Len(path) >= Len(root_dir)
    /\ SubSeq(path, 1, Len(root_dir)) = root_dir

\* C4: a read_file or write_file whose relative path resolves to a path that
\* is neither the sandbox root nor below it fails with the path-violation
\* FileToolError, and no file is read, created or written.
C4_EscapeRejected ==
    (/\ ft_call.op \in {"read_file", "write_file"}
     /\ ~ InsideRoot(Resolve(root_dir \o PathParts(ft_call.relative_path))))
        => /\ ft_call.result.status = "FileToolError"
           /\ ft_call.result.error = AccessOutside
           /\ ft_call.result.touched = {}
           /\ files = ft_call.before

-----------------------------------------------------------------------------
(* The memory store on its own: add_message called with any role, and the  *)
(* store constructed again on the same directory.                          *)

\* the text of the n-th message added
MsgText(n) == "m" \o ToString(n)

\* what an earlier run left in the memory directory after a rotation
EarlierTail ==
    << Message("assistant", "e1"), Message("user", "e2"), Message("assistant", "e3"),
       Message("user", "e4"), Message("assistant", "e5") >>

EarlierSummary == save_summary("earlier", << "f0" >>, << >>)

MemSpecInit ==
    /\ files = BaseFiles
    /\ ft_call = NoFtCall(files)
    /\ CtlInit
    /\ \/ MemInit(Absent, Absent)
       \/ MemInit(save_session(EarlierTail), EarlierSummary)

\* add_message called on the store, at most cap times in a run
AddMessageUpTo(cap) ==
    /\ msg_count < cap
    /\ \E role \in Roles, llm \in Outcomes(SummarizerReplies) :
          ApplyAdd(role, MsgText(msg_count + 1),
                   add_message(Mem, role, MsgText(msg_count + 1), llm), llm)
    /\ UNCHANGED << ctlVars, fsVars >>

AddMessageCall == AddMessageUpTo(MaxMsgs)

\* MemoryManager.__init__ on the same memory directory
RestartCall ==
    /\ session_buffer' = load_session(session_file).buffer
    /\ mem_call' = After(MemCall("init", InitResult(session_file), Mem, << >>, LLMFail))
    /\ UNCHANGED << session_file, summary_file, msg_count >>
    /\ UNCHANGED << ctlVars, fsVars >>

MemNext == AddMessageCall \/ RestartCall

MemSpec == MemSpecInit /\ [][MemNext]_vars

Max(a, b) == IF a >= b THEN a ELSE b

AddMessageReturned == mem_call.op = "add_message"

\* C3: after every add_message call, whether the summarization call of a
\* rotation succeeded or raised, the buffer holds at most
\* max(max_short_term_messages, 5) = 10 messages.
C3_BufferBounded ==
    AddMessageReturned
        => Len(session_buffer) <= Max(max_short_term_messages, RetainedTail)

\* C6: after every add_message call the persisted session record equals the
\* buffer: a store constructed on the same directory loads that buffer.
C6_SessionPersisted ==
    AddMessageReturned => load_session(session_file).buffer = session_buffer

\* C7: when add_message triggers a rotation on buffer b, the summarizer is
\* given b without its last 5 messages, in order, and the buffer becomes the
\* last 5 messages of b, in order.
C7_RotationSplitsBuffer ==
    (AddMessageReturned /\ mem_call.rotated)
        => LET b == mem_call.triggered IN
           /\ Len(b) > 5
           /\ mem_call.sum_input = SubSeq(b, 1, Len(b) - 5)
           /\ session_buffer = SubSeq(b, Len(b) - 4, Len(b))

\* the summarization call of the rotation failed
SummarizationFailed ==
    /\ AddMessageReturned
    /\ mem_call.rotated
    /\ mem_call.sum_calls > 0
    /\ ~ mem_call.llm.ok

\* C8: when the model call of a rotation's summarization fails, add_message
\* raises, the model was called once for that rotation, and the persisted
\* summary record is what it was before the call.
C8_FailedSummaryKeepsRecord ==
    SummarizationFailed
        => /\ mem_call.raised
           /\ mem_call.sum_calls = 1
           /\ summary_file = mem_call.before.summary_file

C8_Witness ==
    /\ SummarizationFailed
    /\ mem_call.raised
    /\ summary_file = EarlierSummary

-----------------------------------------------------------------------------
(* The memory store's API on a memory directory left in any condition:     *)
(* the constructor, add_message, get_recent_context, get_summary,          *)
(* save_summary and clear_session called in any order.                     *)

\* add_message calls in a run of the API
MaxApiMsgs == 2

\* the largest n passed to get_recent_context
MaxN == 4

EarlierPair == << Message("user", "e1"), Message("assistant", "e2") >>

\* the session records found in the directory: none, invalid JSON, JSON that
\* is no list, a saved session, entries without a timestamp, an entry lacking
\* a required field, an entry with an unexpected one
SessionRecords ==
    { Absent, Garbage, JsonOther, save_session(EarlierPair),
      JsonFile(<< [role |-> "user", content |-> "e1"] >>),
      JsonFile(<< [role |-> "user"] >>),
      JsonFile(<< [role |-> "user", content |-> "e1", timestamp |-> None,
                   extra |-> "x"] >>) }

\* the summary records found in the directory: none, invalid JSON, JSON that
\* is no object, a saved summary, an object lacking required fields, an
\* object with an unexpected one
SummaryRecords ==
    { Absent, Garbage, JsonOther, EarlierSummary,
      JsonFile([summary |-> "s"]),
      JsonFile([summary |-> "s", key_facts |-> << >>, user_preferences |-> << >>,
                last_updated |-> 0, extra |-> "x"]) }

SummaryTexts == { "s1" }

FactLists == { << >>, << "f1", "f2" >> }

PreferenceLists == { << >>, << "p1" >> }

ApiInit ==
    /\ files = BaseFiles
    /\ ft_call = NoFtCall(files)
    /\ CtlInit
    /\ \/ \E sessionFile \in SessionRecords : MemInit(sessionFile, Absent)
       \/ \E summaryFile \in SummaryRecords : MemInit(Absent, summaryFile)

\* there is a store to call: the last construction did not raise
StoreAlive == ~ (mem_call.op = "init" /\ mem_call.raised)

\* the record of a call made directly on the API
ApiCall(op, raised, args, context, summary) ==
    After([MemCall(op, MemResult(Mem, raised, FALSE, NoSummarizerCall), Mem, << >>, LLMFail)
              EXCEPT !.args = args, !.ret_context = context, !.ret_summary = summary])

GetRecentContextCall ==
    /\ StoreAlive
    /\ \E n \in 0..MaxN :
          mem_call' = ApiCall("get_recent_context", FALSE, [NoArgs EXCEPT !.n = n],
                              get_recent_context(session_buffer, n), get_summary(Absent))
    /\ UNCHANGED << session_buffer, session_file, summary_file, msg_count >>
    /\ UNCHANGED << ctlVars, fsVars >>

GetSummaryCall ==
    /\ StoreAlive
    /\ mem_call' = ApiCall("get_summary", get_summary(summary_file).raised, NoArgs,
                           << >>, get_summary(summary_file))
    /\ UNCHANGED << session_buffer, session_file, summary_file, msg_count >>
    /\ UNCHANGED << ctlVars, fsVars >>

SaveSummaryCall ==
    /\ StoreAlive
    /\ \E summary \in SummaryTexts, key_facts \in FactLists,
          user_preferences \in PreferenceLists :
          /\ summary_file' = save_summary(summary, key_facts, user_preferences)
          /\ mem_call' = ApiCall("save_summary", FALSE,
                                 [n |-> 0, summary |-> summary, key_facts |-> key_facts,
                                  user_preferences |-> user_preferences],
                                 << >>, get_summary(Absent))
    /\ UNCHANGED << session_buffer, session_file, msg_count >>
    /\ UNCHANGED << ctlVars, fsVars >>

ClearSessionCall ==
    /\ StoreAlive
    /\ SetMem(clear_session(Mem).mem)
    /\ mem_call' = ApiCall("clear_session", clear_session(Mem).raised, NoArgs,
                           << >>, get_summary(Absent))
    /\ UNCHANGED msg_count
    /\ UNCHANGED << ctlVars, fsVars >>

ApiNext ==
    \/ StoreAlive /\ AddMessageUpTo(MaxApiMsgs)
    \/ RestartCall
    \/ GetRecentContextCall
    \/ GetSummaryCall
    \/ SaveSummaryCall
    \/ ClearSessionCall

ApiSpec == ApiInit /\ [][ApiNext]_vars

-----------------------------------------------------------------------------
(* Claims about the store's API.                                           *)

WellFormedSummary(file) == file.state = "json" /\ DOMAIN file.doc = SummaryFields

\* C14: get_summary never raises: it returns None when the summary record is
\* missing or corrupt in any way (invalid JSON, a missing or an unexpected
\* field), and the summary otherwise.
C14_GetSummaryNeverRaises ==
    mem_call.op = "get_summary" =>
        /\ ~ mem_call.raised
        /\ mem_call.ret_summary.found <=> WellFormedSummary(mem_call.before.summary_file)

WellFormedSession(file) ==
    /\ file.state = "json"
    /\ \A i \in 1..Len(file.doc) : IsMessageDoc(file.doc[i])

\* C15: the constructor never fails because of the session record: with the
\* record missing or corrupt in any way (invalid JSON, no list of records, an
\* entry with a missing or an unexpected field) the buffer starts empty.
C15_ConstructorNeverFails ==
    mem_call.op = "init" =>
        /\ ~ mem_call.raised
        /\ ~ WellFormedSession(mem_call.before.session_file) => session_buffer = << >>

Min(a, b) == IF a <= b THEN a ELSE b

\* the last k elements of seq, for k <= Len(seq)
Tail_k(seq, k) == SubSeq(seq, Len(seq) - k + 1, Len(seq))

\* C16: for every buffer and every n >= 0, get_recent_context(n) returns the
\* last min(n, length) messages in buffer order, does not fail, and leaves
\* the buffer and both records as they were.
C16_RecentContextIsTail ==
    mem_call.op = "get_recent_context" =>
        /\ ~ mem_call.raised
        /\ mem_call.ret_context =
               Tail_k(mem_call.before.buffer,
                      Min(mem_call.args.n, Len(mem_call.before.buffer)))
        /\ Mem = mem_call.before

\* C17: after clear_session, called once or a second time in a row, the
\* buffer is empty and there is no session record; neither call fails, and
\* the second changes nothing.
C17_ClearSessionIdempotent ==
    mem_call.op = "clear_session" =>
        /\ ~ mem_call.raised
        /\ session_buffer = << >>
        /\ session_file = Absent
        /\ mem_call.prev = "clear_session" => Mem = mem_call.before

C17_Witness ==
    /\ mem_call.op = "clear_session"
    /\ mem_call.prev = "clear_session"
    /\ mem_call.before.session_file = Absent
    /\ summary_file = EarlierSummary

\* C18: right after save_summary(summary, key_facts, user_preferences),
\* get_summary returns a summary whose three fields are the saved values, the
\* lists in the same order.
C18_SummaryRoundTrip ==
    /\ mem_call.op = "save_summary" =>
          LET got == get_summary(summary_file) IN
          /\ ~ got.raised /\ got.found
          /\ got.value.summary = mem_call.args.summary
          /\ got.value.key_facts = mem_call.args.key_facts
          /\ got.value.user_preferences = mem_call.args.user_preferences
    /\ (mem_call.op = "get_summary" /\ mem_call.prev = "save_summary") =>
          /\ ~ mem_call.raised /\ mem_call.ret_summary.found
          /\ mem_call.ret_summary.value.last_updated = 0

C18_Witness ==
    /\ mem_call.op = "get_summary"
    /\ mem_call.prev = "save_summary"
    /\ mem_call.ret_summary.found
    /\ mem_call.ret_summary.value.key_facts = << "f1", "f2" >>
    /\ mem_call.ret_summary.value.user_preferences = << "p1" >>

-----------------------------------------------------------------------------
(* The planner's parser on its own: _parse_plan applied to a model reply.  *)

\* lines in a reply given to _parse_plan
MaxPlanLines == 3

\* the lines a reply is made of
PlanLines ==
    { "1. Do X", "2) Do Y", "Notes: ignore", "3. Do Z", "", "  4. ", "1. 2 eggs" }

ExamplePlanText == "1. Do X\n2) Do Y\nNotes: ignore\n3. Do Z"

PlanTexts ==
    { Join("\n", lines) :
        lines \in UNION { [1..k -> PlanLines] : k \in 1..MaxPlanLines } }
    \cup { ExamplePlanText }

PlanInit ==
    /\ files = BaseFiles
    /\ ft_call = NoFtCall(files)
    /\ CtlInit
    /\ MemInit(Absent, Absent)

\* Planner._parse_plan called once on a text
ParsePlanCall ==
    /\ trace = << >>
    /\ \E text \in PlanTexts :
          /\ plan' = parse_plan(text)
          /\ trace' = << Event("plan", TRUE, "", text, Len(parse_plan(text))) >>
    /\ UNCHANGED << current_mode, pc, user_input, original_code, modified_code,
                    chat_prompt, outcome, files0, handler, mem0 >>
    /\ UNCHANGED << fsVars, memVars >>

PlanNext == ParsePlanCall

PlanSpec == PlanInit /\ [][PlanNext]_vars

Digits == {"0", "1", "2", "3", "4", "5", "6", "7", "8", "9"}

\* a trimmed line without its ordinal marker: the number, one "." or ")" after
\* it, and the spaces that follow
WithoutMarker(line) ==
    LET afterNumber == LStripSet(line, Digits)
        afterPunct  == IF Len(afterNumber) > 0 /\ Head(afterNumber) \in {".", ")"}
                       THEN Tail(afterNumber) ELSE afterNumber
    IN  LStripSet(afterPunct, {" "})

RECURSIVE MarkedSteps(_)
MarkedSteps(lines) ==
    IF Len(lines) = 0 THEN << >>
    ELSE LET line == Strip(Head(lines)) IN
         (IF Len(line) > 0 /\ IsDigit(Head(line)) /\ Len(WithoutMarker(line)) > 0
          THEN << WithoutMarker(line) >> ELSE << >>)
         \o MarkedSteps(Tail(lines))

ParsedText == trace[1].text

\* C19: _parse_plan returns, in input order, one step for each line that
\* begins (after trimming) with a digit: the line's text with only its
\* ordinal marker removed; blank lines, lines not beginning with a digit and
\* lines that are a marker only give nothing; the four-line example gives
\* Do X, Do Y, Do Z.
C19_PlanStepsKeepText ==
    (Len(trace) = 1 /\ trace[1].ev = "plan") =>
        /\ plan = MarkedSteps(SplitLines(ParsedText))
        /\ ParsedText = ExamplePlanText => plan = << "Do X", "Do Y", "Do Z" >>

-----------------------------------------------------------------------------
(* The interactive loop in a long conversation: chat turns up to and past  *)
(* a rotation, and agent turns in a project that has no target file (they  *)
(* end when the read fails).                                               *)

\* add_message calls in a run of the conversation
MaxChatMsgs == 8

\* a summary record lacking required fields
BrokenSummary == JsonFile([summary |-> "s"])

ChatInit ==
    /\ files = BaseFiles
    /\ ft_call = NoFtCall(files)
    /\ CtlInit
    /\ \/ MemInit(Absent, Absent)
       \/ MemInit(save_session(EarlierTail), EarlierSummary)
       \/ MemInit(Absent, BrokenSummary)

ChatNext ==
    \/ Run(MaxChatMsgs)
    \/ PlanStep
    \/ ChatUserStep
    \/ ChatReplyStep

ChatSpec == ChatInit /\ [][ChatNext]_vars

\* a turn has run and is over
TurnCompleted == TurnOver /\ Len(trace) > 0

AddEvents == SelectSeq(trace, LAMBDA e : e.ev \in {"add_user", "add_assistant"})

\* the messages the add_message calls of the turn were given, in order
Appended ==
    [i \in 1..Len(AddEvents) |->
        Message(IF AddEvents[i].ev = "add_user" THEN "user" ELSE "assistant",
                AddEvents[i].text)]

IsSuffix(a, b) == Len(a) <= Len(b) /\ a = SubSeq(b, Len(b) - Len(a) + 1, Len(b))

\* C13 as stated: every completed turn, in chat and in agent mode, has
\* appended at least one message to the session buffer.
C13_EveryTurnAppends ==
    TurnCompleted => /\ Len(Appended) >= 1
                     /\ session_buffer # mem0.buffer

\* C13: every completed chat turn has appended at least one message (the
\* user's) to the session buffer: the buffer ends with the messages of the
\* turn, after what it held when the turn began; an agent turn appends none
\* and leaves the store as it was.
C13_ChatTurnAppends ==
    TurnCompleted =>
        IF handler.name = "chat"
        THEN /\ Len(Appended) >= 1
             /\ Appended[1] = Message("user", user_input)
             /\ Len(session_buffer) >= Len(Appended)
             /\ IsSuffix(session_buffer, mem0.buffer \o Appended)
        ELSE /\ Len(Appended) = 0
             /\ Mem = mem0

C13_Witness ==
    /\ TurnCompleted
    /\ handler.name = "chat"
    /\ Len(Appended) = 2
    /\ EventsOf({"summarize"}) # {}
    /\ Len(session_buffer) = RetainedTail

ReplyFailed == \E i \in EventsOf({"reply"}) : ~ trace[i].ok

\* C20: when the reply call of a chat turn fails, the error is shown and the
\* session buffer and both persisted records are as they were when the turn
\* began.
C20_FailedReplyLeavesMemory ==
    (TurnCompleted /\ ReplyFailed) => /\ outcome.kind = "error"
                                      /\ Mem = mem0

-----------------------------------------------------------------------------
(* The prompt of a chat turn.                                              *)

PromptLines == Split(chat_prompt, "\n")

NewUserLine == "User: " \o user_input

\* where the block of recent messages begins in the prompt, 0 when there is none
RecentAt ==
    IF \E i \in DOMAIN PromptLines : PromptLines[i] = "RECENT CONVERSATION:"
    THEN CHOOSE i \in DOMAIN PromptLines : PromptLines[i] = "RECENT CONVERSATION:"
    ELSE 0

\* the number of message lines in that block: it ends with an empty line, the
\* new user line and "Assistant:"
WindowLen == IF RecentAt = 0 THEN 0 ELSE Len(PromptLines) - 3 - RecentAt

MessageLine(msg) ==
    (IF msg.role = "user" THEN "User: " ELSE "Assistant: ") \o msg.content

\* C21: the prompt of a chat turn holds, in this order, the summary block
\* (only if there is a summary), the window of at most 8 buffered messages in
\* the order they were added, and the new user line; the new user message is
\* in the prompt exactly once (when no earlier message has the same text).
C21_PromptOrderUserOnce ==
    pc = "chat_reply" =>
        LET n   == Len(PromptLines)
            sum == get_summary(summary_file)
            buf == session_buffer
        IN  /\ n >= 2
            /\ PromptLines[n] = "Assistant:"
            /\ PromptLines[n - 1] = NewUserLine
            /\ sum.found <=> PromptLines[1] = "CONVERSATION CONTEXT:"
            /\ sum.found => /\ PromptLines[2] = "Summary: " \o sum.value.summary
                            /\ RecentAt = 0 \/ RecentAt > 2
            /\ WindowLen <= ChatWindow
            /\ WindowLen <= Len(buf)
            /\ \A k \in 1..WindowLen :
                  PromptLines[RecentAt + k] = MessageLine(buf[Len(buf) - WindowLen + k])
            /\ (\A i \in DOMAIN mem0.buffer : mem0.buffer[i].content # user_input)
                  => Cardinality({ i \in DOMAIN PromptLines :
                                     PromptLines[i] = NewUserLine }) = 1

-----------------------------------------------------------------------------
(* The agent turn when the target cannot be read.                          *)

\* C22: when the read of the target fails (the file is missing or is not a
\* file), the agent turn is over with read_file's error reported: the read
\* is the last thing the turn did, so no proposal call was made, no diff was
\* shown, no answer was asked for and nothing was written.
C22_ReadFailureEndsTurn ==
    \A i \in EventsOf({"read"}) :
        ~ trace[i].ok =>
            /\ i = Len(trace)
            /\ TurnOver
            /\ outcome = Report("file_error", read_file(files0, target_file).error)
            /\ outcome.message \in { "File not found: " \o target_file,
                                     "Not a file: " \o target_file }
            /\ EventsOf({"propose", "retry", "diff", "confirm", "write"}) = {}
            /\ files = files0

C22_Witness ==
    /\ pc = "prompt"
    /\ \E i \in EventsOf({"read"}) : ~ trace[i].ok
    /\ files = WithTarget(DirNode)
    /\ outcome = Report("file_error", "Not a file: cli/main.py")

-----------------------------------------------------------------------------
(* Rotations of the memory store.                                          *)

Rotated == AddMessageReturned /\ mem_call.rotated

\* C23: every rotation strictly shrinks the buffer, to 5 messages; and a
\* rotation is triggered only on a buffer that holds at least 6 messages more
\* than the 5 a rotation leaves, so none follows a rotation before 6 more
\* messages have been added.
C23_RotationShrinksToFive ==
    Rotated => /\ Len(session_buffer) = RetainedTail
               /\ Len(session_buffer) < Len(mem_call.triggered)
               /\ Len(mem_call.triggered) >= RetainedTail + 6

-----------------------------------------------------------------------------
(* The summary a rotation leaves.                                          *)

SuccessfulRotation == Rotated /\ ~ mem_call.raised

\* the messages a rotation on buffer b archives
ArchiveBatch(b) == SubSeq(b, 1, Len(b) - RetainedTail)

\* what the fields of the summary are for each reply of the model
SummaryFor(text) ==
    IF text = "SUMMARY: talk\nFACTS: f1, f2\nPREFERENCES: p1"
    THEN [summary |-> "talk", key_facts |-> << "f1", "f2" >>,
          user_preferences |-> << "p1" >>, last_updated |-> 0]
    ELSE IF text = "SUMMARY: short"
    THEN [summary |-> "short", key_facts |-> << >>,
          user_preferences |-> << >>, last_updated |-> 0]
    ELSE [summary |-> "", key_facts |-> << >>,
          user_preferences |-> << >>, last_updated |-> 0]

\* C25: after a successful rotation the summary record is the summarizer's
\* result for the batch archived by that rotation and nothing else: the
\* summarizer was given exactly the archived messages, its transcript has one
\* line for each of them and no other line, and every field of the record
\* comes from the model's reply, whatever summary was on record before.
C25_SummaryReplacedNotMerged ==
    SuccessfulRotation =>
        LET batch == ArchiveBatch(mem_call.triggered)
            lines == Split(mem_call.sum_transcript, "\n")
        IN  /\ Len(batch) > 0
            /\ mem_call.sum_calls = 1
            /\ mem_call.sum_input = batch
            /\ Len(lines) = Len(batch)
            /\ \A i \in 1..Len(batch) : lines[i] = MessageLine(batch[i])
            /\ summary_file = JsonFile(SummaryFor(mem_call.llm.text))

C25_Witness ==
    /\ SuccessfulRotation
    /\ mem_call.before.summary_file = EarlierSummary
    /\ mem_call.llm.text = "SUMMARY: short"
    /\ summary_file.doc.key_facts = << >>

-----------------------------------------------------------------------------
(* The proposal that repeats the original.                                 *)

\* what the model client returns when the model's output is the original
\* content, character for character
OriginalReproduced == generate(original_code).text

\* C26: when the proposal the diff is computed from is the model's exact
\* reproduction of the original content, whatever that content is (also one
\* that ends in a newline), the diff is empty and the turn ends with the 'no
\* changes' notice without asking for a confirmation.
C26_SameProposalNoChanges ==
    \A d \in EventsOf({"diff"}) :
        (d > 1 /\ trace[d - 1].ev \in {"propose", "retry"}
               /\ trace[d - 1].text = OriginalReproduced)
            => /\ trace[d].text = ""
               /\ pc # "confirming"
               /\ EventsOf({"confirm", "write"}) = {}
               /\ TurnOver => outcome = Report("no_changes", "No changes detected.")

-----------------------------------------------------------------------------
(* What clear_session leaves alone.                                        *)

ClearSessionReturned == mem_call.op = "clear_session"

\* C27: clear_session leaves the summary record as it was: get_summary gives
\* after the call what it gave before it.
C27_ClearKeepsSummary ==
    ClearSessionReturned =>
        /\ summary_file = mem_call.before.summary_file
        /\ get_summary(summary_file) = get_summary(mem_call.before.summary_file)

C27_Witness ==
    /\ ClearSessionReturned
    /\ mem_call.before.session_file = save_session(EarlierPair)
    /\ Len(mem_call.before.buffer) > 0
    /\ get_summary(summary_file).found
    /\ get_summary(summary_file).value.key_facts = << "f1", "f2" >>

-----------------------------------------------------------------------------
(* The interactive loop with whole agent turns and chat turns that reach a *)
(* rotation: the run starts on the memory directory an earlier run left.   *)

\* add_message calls in such a run
MaxTurnMsgs == 7

TurnInit ==
    /\ files = WithTarget(FileNode("a"))
    /\ ft_call = NoFtCall(files)
    /\ CtlInit
    /\ \/ MemInit(save_session(EarlierTail), EarlierSummary)
       \/ MemInit(save_session(EarlierTail), BrokenSummary)

TurnNext ==
    \/ Run(MaxTurnMsgs)
    \/ PlanStep
    \/ ProposeStep
    \/ RetryStep
    \/ ConfirmStep
    \/ ChatUserStep
    \/ ChatReplyStep

TurnSpec == TurnInit /\ [][TurnNext]_vars

\* the kinds of the events of the turn, in order
Kinds == [i \in DOMAIN trace |-> trace[i].ev]

Count(kinds) == Cardinality(EventsOf(kinds))

\* something failed in the turn: a model call, a store call, the write
SomethingRaised ==
    \E i \in EventsOf({"plan", "propose", "retry", "reply", "summarize",
                       "add_user", "add_assistant", "write"}) : ~ trace[i].ok

\* C24: a turn ends after a bounded number of steps whenever each blocking
\* call returns or fails: where the turn stands fixes what it has done so
\* far (no step is ever repeated) and its next step can be taken; an agent
\* turn makes at most 3 model calls (1 plan, at most 2 proposals), a chat
\* turn at most 2 (1 reply, at most 1 summarization); and a failure inside a
\* turn ends it with an error reported, the loop still running.
C24_TurnsEndBoundedCalls ==
    /\ Count({"plan"}) <= 1 /\ Count({"propose"}) <= 1 /\ Count({"retry"}) <= 1
    /\ Count({"plan", "propose", "retry"}) <= 3
    /\ Count({"reply"}) <= 1 /\ Count({"summarize"}) <= 1
    /\ Count({"reply", "summarize"}) <= 2
    /\ Count({"plan", "propose", "retry"}) = 0 \/ Count({"reply", "summarize"}) = 0
    /\ pc = "planning" => trace = << >> /\ ENABLED PlanStep
    /\ pc = "proposing" => Kinds = << "plan", "read" >> /\ ENABLED ProposeStep
    /\ pc = "retrying" => Kinds = << "plan", "read", "propose" >> /\ ENABLED RetryStep
    /\ pc = "confirming" =>
          /\ Kinds \in { << "plan", "read", "propose", "diff" >>,
                         << "plan", "read", "propose", "retry", "diff" >> }
          /\ ENABLED ConfirmStep
    /\ pc = "chat_user" => trace = << >> /\ ENABLED ChatUserStep
    /\ pc = "chat_reply" =>
          /\ Kinds \in { << "add_user" >>, << "summarize", "add_user" >> }
          /\ ENABLED ChatReplyStep
    /\ pc \in { "prompt", "exited", "planning", "proposing", "retrying",
                "confirming", "chat_user", "chat_reply" }
    /\ (TurnOver /\ SomethingRaised) => outcome.kind = "error"
    /\ (TurnOver /\ Len(trace) > 0) => outcome.kind # "none"

\* an agent turn of 3 model calls is over, in a run whose last chat turn made
\* 2: its reply, and the summarization of the rotation its reply triggered
C24_Witness ==
    /\ pc = "prompt"
    /\ handler.name = "agent"
    /\ Count({"plan", "propose", "retry"}) = 3
    /\ mem_call.op = "add_message" /\ mem_call.rotated /\ ~ mem_call.raised
    /\ mem_call.triggered[Len(mem_call.triggered)].role = "assistant"

====
